---------------------------- MODULE Spec2Model ----------------------------
(***************************************************************************)
(* A model of moeb/asteroids (src/asteroids.py): the World registry with   *)
(* its two indices and the physics space, the one-shot done flag, the      *)
(* collision callbacks of main(), the Player and AsteroidSpammer           *)
(* controllers and the View's sprite registry.                             *)
(*                                                                         *)
(* Handlers are operators from a state record to a state record; an        *)
(* exception is the field err of the result, and a handler that raises     *)
(* keeps every assignment it made before the raise, as Python does.        *)
(* Time is counted in units of 1/UnitsPerSecond seconds.  The physics      *)
(* engine (pymunk) and the renderer (pyglet) are external: a physics step  *)
(* moves the bodies of the space to positions drawn from Positions and     *)
(* dispatches collision callbacks drawn from the pairs the registered      *)
(* handlers cover.                                                         *)
(***************************************************************************)
EXTENDS Integers, Sequences, FiniteSets, TLC

---------------------------------------------------------------------------
(* Bounds of the model *)

\* model objects ever constructed by the controllers in one run
MaxEntities == 3
\* model objects a client of World constructs itself in one run
MaxClientObjects == 1
\* collision callbacks dispatched by one physics step
MaxCollisions == 2
\* wall-clock seconds that pass in one run
MaxSeconds == 1
\* calls that raise in one run of a client that misuses the interface
MaxFaults == 2
\* labels a client that assigns World.done lets be created
MaxLabels == 2
\* time units a timing scenario runs for beyond its one second
ExtraTime == 0

---------------------------------------------------------------------------
(* Program constants *)

width == 1024
height == 768
BoundsMargin == 300
screen_offset == 150
StandOff == 80
DefaultBps == 6
DefaultAps == 3
\* the bps a Player is built with: main()'s default and a slower rate
BulletRates == {4, DefaultBps}

\* the least common multiple of the rates 3, 4 and 6: every threshold
\* 1/aps, 1/bps is a whole number of units
UnitsPerSecond == 3 * 4

Kinds == {"Asteroid", "Bullet", "Spaceship"}
Controllers == {"Player", "Spammer"}
NoError == "none"
\* pymunk's complaint about a body or shape that is not in the space: the
\* type depends on the pymunk release (set/dict removal or an assertion)
SpaceErrors == {"KeyError", "AssertionError"}

\* math.hypot on the integers: exact for the window of main()
Hypot(a, b) == CHOOSE r \in 0..(a + b) : r * r = a * a + b * b

win_size == <<width, height>>
bounds == Hypot(width, height) \div 2 + BoundsMargin

\* World.__init__: the region in which objects may exist
Left == -bounds
Right == win_size[1] + bounds
Bottom == -bounds
Top == win_size[2] + bounds
Mid == <<win_size[1] \div 2, win_size[2] \div 2>>

\* AsteroidSpammer.__init__: the spawn circle and the outer limit
SpawnRadius == Hypot(width, height) \div 2 + screen_offset
OuterRadius == SpawnRadius + screen_offset

\* the test of World._delete_out_of_bounds
OutOfBounds(p) == p[1] < Left \/ p[1] > Right \/ p[2] < Bottom \/ p[2] > Top

\* directions <<c, s, d>> standing for the unit vector (c/d, s/d)
Directions == {<<1, 0, 1>>, <<-3, -4, 5>>}
\* the point at distance r from p in direction u
Along(p, r, u) == <<p[1] + (u[1] * r) \div u[3], p[2] + (u[2] * r) \div u[3]>>

\* where a physics step may leave a body: a corner of the region (still
\* inside: the test is strict), a point beyond an edge in x and one in y
Positions == {<<Right, Top>>, <<Left - 1, Mid[2]>>, <<Mid[1], Top + 1>>}

---------------------------------------------------------------------------
VARIABLES
    collision_handlers, \* World._collision_handlers: kind -> tag
    collision_type,     \* the class attribute register_model sets: kind -> tag
    space_handlers,     \* handlers installed in the space: <<tag, tag, name>>
    kind,               \* the model objects constructed so far: id -> kind
    pos,                \* body.position of each constructed object
    controllers,        \* the controllers constructed so far
    models,             \* World._models: list of <<model, controller>>
    shapes,             \* World._shapes: shape -> <<model, controller>>
    space,              \* the bodies and shapes in the pymunk space
    done,               \* World._done
    labels,             \* the labels created: the seconds each one shows
    now,                \* time.time() - World._time, in units
    view,               \* View._model2sprite: the models with a sprite
    shoots,             \* Player._shoots
    bps,                \* Player._bps: units between bullets
    tsb,                \* Player._tsb: units since the last bullet
    aps,                \* AsteroidSpammer._aps: units between asteroids
    last_asteroid,      \* AsteroidSpammer._last_asteroid
    asteroids,          \* AsteroidSpammer._asteroids
    spaceship,          \* Player._spaceship (0 before Player is constructed)
    pc,                 \* "idle", or "physics" inside space.step
    in_step,            \* the shapes the running physics step works on
    fired,              \* callbacks the running physics step dispatched
    call,               \* the last call that returned and what it raised
    faults,             \* calls that raised so far
    tick,               \* the dt of the interval_cb call made last
    dispatched,         \* the callback dispatched last: <<name, a, b, result>>
    held,               \* scenario: units stepped since it began
    spawned,            \* scenario: objects spawned since it began
    steady              \* scenario: every step so far was one interval long

vars == <<collision_handlers, collision_type, space_handlers, kind, pos,
          controllers, models, shapes, space, done, labels, now, view,
          shoots, bps, tsb, aps, last_asteroid, asteroids, spaceship, pc,
          in_step, fired, call, faults, held, spawned, steady,
         tick, dispatched>>

\* the fields a handler may assign, as one record
St == [collision_handlers |-> collision_handlers,
       collision_type |-> collision_type,
       space_handlers |-> space_handlers,
       kind |-> kind, pos |-> pos, controllers |-> controllers,
       models |-> models, shapes |-> shapes, space |-> space,
       done |-> done, labels |-> labels, view |-> view,
       tsb |-> tsb, last_asteroid |-> last_asteroid,
       asteroids |-> asteroids, spaceship |-> spaceship, err |-> NoError]

\* the fields of the record s assigned
Install(s) ==
    /\ collision_handlers' = s.collision_handlers
    /\ collision_type' = s.collision_type
    /\ space_handlers' = s.space_handlers
    /\ kind' = s.kind
    /\ pos' = s.pos
    /\ controllers' = s.controllers
    /\ models' = s.models
    /\ shapes' = s.shapes
    /\ space' = s.space
    /\ done' = s.done
    /\ labels' = s.labels
    /\ view' = s.view
    /\ tsb' = s.tsb
    /\ last_asteroid' = s.last_asteroid
    /\ asteroids' = s.asteroids
    /\ spaceship' = s.spaceship

\* the call op(e, c) returns, or raises x
Returned(op, e, c, x) ==
    /\ call' = [op |-> op, e |-> e, c |-> c, err |-> x]
    /\ faults' = IF x = NoError THEN faults ELSE faults + 1

Raise(s, x) == [s EXCEPT !.err = x]

\* a dict with key k set to v
Put(f, k, v) == [x \in DOMAIN f \cup {k} |-> IF x = k THEN v ELSE f[x]]
\* a dict without key k
Del(f, k) == [x \in DOMAIN f \ {k} |-> f[x]]
\* list.remove(x): the list without the first occurrence of x
RECURSIVE ListRemove(_, _)
ListRemove(l, x) ==
    IF l = <<>> THEN <<>>
    ELSE IF Head(l) = x THEN Tail(l)
    ELSE <<Head(l)>> \o ListRemove(Tail(l), x)
InList(l, x) == \E i \in 1..Len(l) : l[i] = x

---------------------------------------------------------------------------
(* World *)

\* a faulty World.register_model that assigns a tag on every call
register_modelAgain(s, k) ==
    LET h == Put(s.collision_handlers, k,
                 Cardinality(DOMAIN s.collision_handlers) + 1)
    IN [s EXCEPT !.collision_handlers = h,
                 !.collision_type = Put(@, k, Cardinality(DOMAIN h))]

\* World.register_model
register_model(s, k) ==
    IF k \notin DOMAIN s.collision_handlers
    THEN LET h == Put(s.collision_handlers, k,
                      Cardinality(DOMAIN s.collision_handlers) + 1)
         IN [s EXCEPT !.collision_handlers = h,
                      !.collision_type = Put(@, k, Cardinality(DOMAIN h))]
    ELSE s

\* World.collision_handler(m1, m2) applied to a function named name
collision_handler(s, m1, m2, name) ==
    IF m1 \notin DOMAIN s.collision_handlers
       \/ m2 \notin DOMAIN s.collision_handlers
    THEN Raise(s, "KeyError")
    ELSE [s EXCEPT !.space_handlers =
              @ \cup {<<s.collision_handlers[m1], s.collision_handlers[m2],
                        name>>}]

\* the id the next constructed model object gets
NextId(s) == Cardinality(DOMAIN s.kind) + 1

\* a faulty constructor that does not read self.collision_type
NewModelUnchecked(s, k, p) ==
    [s EXCEPT !.kind = Put(@, NextId(s), k),
              !.pos = Put(@, NextId(s), p)]

\* Spaceship.__init__, Bullet.__init__, Asteroid.__init__: the object reads
\* self.collision_type, which only a registered class has
NewModel(s, k, p) ==
    IF k \notin DOMAIN s.collision_type
    THEN Raise(s, "AttributeError")
    ELSE [s EXCEPT !.kind = Put(@, NextId(s), k),
                   !.pos = Put(@, NextId(s), p)]

\* a faulty World.add that appends the pair and forgets the shape map
WorldAddUnindexed(s, e, c) ==
    IF e \in s.space
    THEN Raise(s, "AssertionError")
    ELSE [s EXCEPT !.space = @ \cup {e},
                   !.models = Append(@, <<e, c>>)]

\* World.add
WorldAdd(s, e, c) ==
    IF e \in s.space
    THEN Raise(s, "AssertionError")
    ELSE [s EXCEPT !.space = @ \cup {e},
                   !.models = Append(@, <<e, c>>),
                   !.shapes = Put(@, e, <<e, c>>)]

\* a faulty World.remove that returns quietly for a model not in the space
WorldRemoveLenient(s, e, c, se) ==
    IF e \notin s.space
    THEN s
    ELSE LET s1 == [s EXCEPT !.space = @ \ {e}]
         IN IF ~InList(s1.models, <<e, c>>)
            THEN Raise(s1, "ValueError")
            ELSE [s1 EXCEPT !.models = ListRemove(@, <<e, c>>),
                            !.shapes = Del(@, e)]

\* World.remove; se is the error this pymunk raises for an absent shape
WorldRemove(s, e, c, se) ==
    IF e \notin s.space
    THEN Raise(s, se)
    ELSE LET s1 == [s EXCEPT !.space = @ \ {e}]
         IN IF ~InList(s1.models, <<e, c>>)
            THEN Raise(s1, "ValueError")
            ELSE LET s2 == [s1 EXCEPT !.models = ListRemove(@, <<e, c>>)]
                 IN IF e \notin DOMAIN s2.shapes
                    THEN Raise(s2, "KeyError")
                    ELSE [s2 EXCEPT !.shapes = Del(@, e)]

\* World.get_by_shape: the pair, or the KeyError of a missing key
get_by_shape(sh) ==
    IF sh \in DOMAIN shapes
    THEN [err |-> NoError, val |-> shapes[sh]]
    ELSE [err |-> "KeyError", val |-> <<>>]

\* the setter of World.done; sec is int(time.time() - self._time)
SetDone(s, v, sec) ==
    IF s.done
    THEN s
    ELSE [s EXCEPT !.labels = Append(@, sec), !.done = v]

Seconds == now \div UnitsPerSecond

---------------------------------------------------------------------------
(* View *)

\* View.register_model
ViewRegister(s, e) == [s EXCEPT !.view = @ \cup {e}]

\* View.remove_model
ViewRemove(s, e) ==
    IF e \notin s.view
    THEN Raise(s, "KeyError")
    ELSE [s EXCEPT !.view = @ \ {e}]

---------------------------------------------------------------------------
(* Player *)

\* Player.__init__
PlayerInit(s) ==
    LET s1 == NewModel(s, "Spaceship", Mid)
        ship == NextId(s)
    IN IF s1.err # NoError THEN s1
       ELSE LET s2 == WorldAdd(s1, ship, "Player")
            IN IF s2.err # NoError THEN s2
               ELSE [ViewRegister(s2, ship) EXCEPT
                        !.spaceship = ship,
                        !.controllers = @ \cup {"Player"},
                        !.tsb = 0]

\* a faulty Player.delete that does not look at the type of the model
PlayerDeleteAny(s, e, se) ==
    LET s1 == ViewRemove(s, e)
    IN IF s1.err # NoError THEN s1
       ELSE WorldRemove(s1, e, "Player", se)

\* Player.delete
PlayerDelete(s, e, se) ==
    IF s.kind[e] = "Bullet"
    THEN LET s1 == ViewRemove(s, e)
         IN IF s1.err # NoError THEN s1
            ELSE WorldRemove(s1, e, "Player", se)
    ELSE s

\* a faulty Player._create_bullet that takes the threshold off the
\* accumulator instead of resetting it
create_bulletCarry(s, dt, u) ==
    LET s1 == [s EXCEPT !.tsb = @ + dt]
    IN IF s1.tsb < bps
       THEN s1
       ELSE LET s2 == [s1 EXCEPT !.tsb = @ - bps]
                s3 == NewModel(s2, "Bullet",
                               Along(s2.pos[s2.spaceship], StandOff, u))
                bullet == NextId(s2)
            IN IF s3.err # NoError THEN s3
               ELSE WorldAdd(ViewRegister(s3, bullet), bullet, "Player")

\* Player._create_bullet; u is the heading of the ship
create_bullet(s, dt, u) ==
    LET s1 == [s EXCEPT !.tsb = @ + dt]
    IN IF s1.tsb < bps
       THEN s1
       ELSE LET s2 == [s1 EXCEPT !.tsb = 0]
                s3 == NewModel(s2, "Bullet",
                               Along(s2.pos[s2.spaceship], StandOff, u))
                bullet == NextId(s2)
            IN IF s3.err # NoError THEN s3
               ELSE WorldAdd(ViewRegister(s3, bullet), bullet, "Player")

\* a faulty Player.step that lets the accumulator run while the fire key
\* is released
PlayerStepCooling(s, dt, u) ==
    IF shoots THEN create_bullet(s, dt, u) ELSE [s EXCEPT !.tsb = @ + dt]

\* a faulty Player.step that fires no more once the game is done
PlayerStepUntilDone(s, dt, u) ==
    IF shoots /\ ~s.done THEN create_bullet(s, dt, u) ELSE s

\* Player.step: thrust and rotation only feed impulses to the physics
\* engine, whose outcome a physics step draws
PlayerStep(s, dt, u) ==
    IF shoots THEN create_bullet(s, dt, u) ELSE s

---------------------------------------------------------------------------
(* AsteroidSpammer *)

\* AsteroidSpammer.__init__
SpammerInit(s) ==
    [s EXCEPT !.controllers = @ \cup {"Spammer"},
              !.last_asteroid = 0,
              !.asteroids = <<>>]

\* a faulty AsteroidSpammer._create_asteroid that places the asteroid
\* screen_offset beyond the outer radius
create_asteroidFar(s, u) ==
    LET s1 == NewModel(s, "Asteroid",
                       Along(Mid, OuterRadius + screen_offset, u))
        asteroid == NextId(s)
    IN IF s1.err # NoError THEN s1
       ELSE LET s2 == WorldAdd(s1, asteroid, "Spammer")
            IN IF s2.err # NoError THEN s2
               ELSE ViewRegister([s2 EXCEPT !.asteroids = Append(@, asteroid)],
                                 asteroid)

\* AsteroidSpammer._create_asteroid; u is the direction of the random angle
create_asteroid(s, u) ==
    LET s1 == NewModel(s, "Asteroid", Along(Mid, SpawnRadius, u))
        asteroid == NextId(s)
    IN IF s1.err # NoError THEN s1
       ELSE LET s2 == WorldAdd(s1, asteroid, "Spammer")
            IN IF s2.err # NoError THEN s2
               ELSE ViewRegister([s2 EXCEPT !.asteroids = Append(@, asteroid)],
                                 asteroid)

\* AsteroidSpammer.step
SpammerStep(s, dt, u) ==
    LET s1 == [s EXCEPT !.last_asteroid = @ + dt]
    IN IF s1.last_asteroid < aps
       THEN s1
       ELSE create_asteroid([s1 EXCEPT !.last_asteroid = 0], u)

\* a faulty AsteroidSpammer.delete that keeps the model in its list
SpammerDeleteTracked(s, e, se) ==
    LET s1 == WorldRemove(s, e, "Spammer", se)
    IN IF s1.err # NoError THEN s1
       ELSE IF ~InList(s1.asteroids, e)
       THEN Raise(s1, "ValueError")
       ELSE ViewRemove(s1, e)

\* AsteroidSpammer.delete
SpammerDelete(s, e, se) ==
    LET s1 == WorldRemove(s, e, "Spammer", se)
    IN IF s1.err # NoError THEN s1
       ELSE IF ~InList(s1.asteroids, e)
       THEN Raise(s1, "ValueError")
       ELSE ViewRemove([s1 EXCEPT !.asteroids = ListRemove(@, e)], e)

\* controller.delete(model), dispatched on the controller object
ControllerDelete(s, c, e, se) ==
    IF c = "Player" THEN PlayerDelete(s, e, se) ELSE SpammerDelete(s, e, se)

---------------------------------------------------------------------------
(* The collision callbacks of main() *)

\* a faulty turn of the loop of begin that lets the KeyError out
BeginShapeStrict(s, sh, se) ==
    IF s.err # NoError THEN s
    ELSE IF sh \notin DOMAIN s.shapes THEN Raise(s, "KeyError")
    ELSE ControllerDelete(s, s.shapes[sh][2], s.shapes[sh][1], se)

\* one turn of the loop of begin: the KeyError of the lookup or of the
\* delete is swallowed, what the delete did before it stays
BeginShape(s, sh, se) ==
    IF s.err # NoError THEN s
    ELSE IF sh \notin DOMAIN s.shapes THEN s
    ELSE LET r == ControllerDelete(s, s.shapes[sh][2], s.shapes[sh][1], se)
         IN IF r.err = "KeyError" THEN [r EXCEPT !.err = NoError] ELSE r

\* a faulty main.begin that stops after the first shape of the arbiter
BeginFirst(s, a, b, se) == BeginShape(s, a, se)

\* main.begin for the arbiter's shapes <<a, b>>
Begin(s, a, b, se) == BeginShape(BeginShape(s, a, se), b, se)

\* main.post_solve for the arbiter's shapes <<a, b>>: the first missing
\* shape ends the loop
PostSolve(s, a, b, sec) ==
    IF a \notin DOMAIN s.shapes THEN s
    ELSE LET s1 == SetDone(s, TRUE, sec)
         IN IF b \notin DOMAIN s1.shapes THEN s1
            ELSE SetDone(s1, TRUE, sec)

---------------------------------------------------------------------------
(* World.step *)

\* the callbacks a physics step over the shapes sp may dispatch:
\* <<name, a, b>> for a handler installed for the collision types of a and b
Dispatchable(s, sp) ==
    {cb \in {<<h[3], a, b>> : h \in s.space_handlers, a \in sp, b \in sp} :
        /\ s.kind[cb[2]] \in DOMAIN s.collision_type
        /\ s.kind[cb[3]] \in DOMAIN s.collision_type
        /\ <<s.collision_type[s.kind[cb[2]]], s.collision_type[s.kind[cb[3]]],
             cb[1]>> \in s.space_handlers}

\* what the callback cb gave back when it left the state s: begin returns
\* False, post_solve has no return statement
CallbackResult(cb, s) ==
    IF s.err # NoError THEN "raised"
    ELSE IF cb[1] = "begin" THEN "False" ELSE "None"

\* the callback cb run
Callback(s, cb, se, sec) ==
    IF cb[1] = "begin"
    THEN Begin(s, cb[2], cb[3], se)
    ELSE PostSolve(s, cb[2], cb[3], sec)

\* World._delete_out_of_bounds: the for loop over self._models by index
\* (Python's list iterator), from index i on
RECURSIVE delete_out_of_bounds(_, _, _, _)
delete_out_of_bounds(s, i, se, sec) ==
    IF s.err # NoError \/ i > Len(s.models) THEN s
    ELSE LET model == s.models[i][1]
             controller == s.models[i][2]
         IN IF OutOfBounds(s.pos[model])
            THEN IF s.kind[model] = "Spaceship"
                 THEN delete_out_of_bounds(SetDone(s, TRUE, sec), i + 1, se, sec)
                 ELSE delete_out_of_bounds(
                          ControllerDelete(s, controller, model, se),
                          i + 1, se, sec)
            ELSE delete_out_of_bounds(s, i + 1, se, sec)

\* the bodies of the space moved to the positions np
Moved(s, np) ==
    [s EXCEPT !.pos = [e \in DOMAIN s.pos |->
                          IF e \in s.space THEN np[e] ELSE s.pos[e]]]

---------------------------------------------------------------------------
(* States after construction *)

NoCall == [op |-> "init", e |-> 0, c |-> "-", err |-> NoError]

\* no callback dispatched since the last physics step began
NoDispatch == <<>>

\* World.__init__ and View.__init__: nothing registered, nothing alive
Fresh == [collision_handlers |-> <<>>, collision_type |-> <<>>,
          space_handlers |-> {}, kind |-> <<>>, pos |-> <<>>,
          controllers |-> {}, models |-> <<>>, shapes |-> <<>>, space |-> {},
          done |-> FALSE, labels |-> <<>>, view |-> {}, tsb |-> 0,
          last_asteroid |-> 0, asteroids |-> <<>>, spaceship |-> 0,
          err |-> NoError]

\* main() up to the scheduling of interval_cb
MainSetup ==
    LET s1 == register_model(Fresh, "Asteroid")
        s2 == register_model(s1, "Bullet")
        s3 == register_model(s2, "Spaceship")
        s4 == SpammerInit(PlayerInit(s3))
        s5 == collision_handler(s4, "Asteroid", "Bullet", "begin")
    IN collision_handler(s5, "Spaceship", "Asteroid", "post_solve")

\* the state s with the Player built for b bullets and the spammer for a
\* asteroids per second
Start(s, b, a) ==
    /\ collision_handlers = s.collision_handlers
    /\ collision_type = s.collision_type
    /\ space_handlers = s.space_handlers
    /\ kind = s.kind
    /\ pos = s.pos
    /\ controllers = s.controllers
    /\ models = s.models
    /\ shapes = s.shapes
    /\ space = s.space
    /\ done = s.done
    /\ labels = s.labels
    /\ view = s.view
    /\ tsb = s.tsb
    /\ last_asteroid = s.last_asteroid
    /\ asteroids = s.asteroids
    /\ spaceship = s.spaceship
    /\ pc = "idle"
    /\ in_step = {}
    /\ fired = 0
    /\ call = NoCall
    /\ faults = 0
    /\ now = 0
    /\ shoots = FALSE
    /\ bps = UnitsPerSecond \div b
    /\ aps = UnitsPerSecond \div a
    /\ held = 0
    /\ spawned = 0
    /\ steady = TRUE
    /\ tick = 0
    /\ dispatched = NoDispatch

---------------------------------------------------------------------------
(* The calls made from outside: by the scheduler, the window and a client *)

\* the model objects constructed so far
Objects == DOMAIN kind

\* the variables no handler assigns
Frame == UNCHANGED <<now, shoots, bps, aps, held, spawned, steady, tick>>

\* no physics step is running, and none starts
Idle == pc = "idle" /\ UNCHANGED <<pc, in_step, fired, dispatched>>

\* world.register_model(k)
Register(k) ==
    /\ Idle /\ Frame
    /\ Install(register_model(St, k))
    /\ Returned("register_model", 0, k, NoError)

\* @world.collision_handler(m1, m2) on a function named name
Handler(m1, m2, name) ==
    LET s == collision_handler(St, m1, m2, name)
    IN /\ Idle /\ Frame
       /\ Install(s)
       /\ Returned("collision_handler", 0, name, s.err)

\* Player(world, win_size, view)
NewPlayer ==
    LET s == PlayerInit(St)
    IN /\ Idle /\ Frame
       /\ "Player" \notin controllers
       /\ NextId(St) <= MaxEntities
       /\ Install(s)
       /\ Returned("Player", 0, "Player", s.err)

\* AsteroidSpammer(world, win_size, view)
NewSpammer ==
    /\ Idle /\ Frame
    /\ "Spammer" \notin controllers
    /\ Install(SpammerInit(St))
    /\ Returned("AsteroidSpammer", 0, "Spammer", NoError)

\* Bullet(...) or Asteroid(...) constructed by the client itself
Construct(k) ==
    LET s == NewModel(St, k, Mid)
    IN /\ Idle /\ Frame
       /\ Cardinality(Objects \ {spaceship}) < MaxClientObjects
       /\ Install(s)
       /\ Returned("construct", 0, k, s.err)

\* world.add(e, c)
Add(e, c) ==
    LET s == WorldAdd(St, e, c)
    IN /\ Idle /\ Frame
       /\ Install(s)
       /\ Returned("add", e, c, s.err)

\* world.remove(e, c)
Remove(e, c, se) ==
    LET s == WorldRemove(St, e, c, se)
    IN /\ Idle /\ Frame
       /\ Install(s)
       /\ Returned("remove", e, c, s.err)

\* world.done = v
AssignDone(v) ==
    /\ Idle /\ Frame
    /\ Install(SetDone(St, v, Seconds))
    /\ Returned("done", 0, "-", NoError)

\* a faulty world.step(dt) that does not look at done
StepEnterUnguarded(np) ==
    /\ pc = "idle"
    /\ Frame
    /\ Install(Moved(St, np))
    /\ pc' = "physics"
    /\ in_step' = space
    /\ fired' = 0
    /\ dispatched' = NoDispatch
    /\ UNCHANGED <<call, faults>>

\* world.step(dt) called: it returns at once when done; else space.step
\* moves the bodies to the positions np and begins to dispatch callbacks
StepEnter(np) ==
    /\ pc = "idle"
    /\ Frame
    /\ IF done
       THEN /\ Install(St)
            /\ Returned("step", 0, "World", NoError)
            /\ UNCHANGED <<pc, in_step, fired, dispatched>>
       ELSE /\ Install(Moved(St, np))
            /\ pc' = "physics"
            /\ in_step' = space
            /\ fired' = 0
            /\ dispatched' = NoDispatch
            /\ UNCHANGED <<call, faults>>

\* space.step dispatches the callback cb; an error that escapes the callback
\* ends world.step
Collide(cb, se) ==
    LET s == Callback(St, cb, se, Seconds)
    IN /\ pc = "physics"
       /\ Frame
       /\ fired < MaxCollisions
       /\ Install(s)
       /\ dispatched' = <<cb[1], cb[2], cb[3], CallbackResult(cb, s)>>
       /\ IF s.err = NoError
          THEN /\ fired' = fired + 1
               /\ UNCHANGED <<pc, in_step, call, faults>>
          ELSE /\ pc' = "idle"
               /\ in_step' = {}
               /\ fired' = 0
               /\ Returned("step", 0, "World", s.err)

\* space.step returns, world.step culls and returns
StepLeave(se) ==
    LET s == delete_out_of_bounds(St, 1, se, Seconds)
    IN /\ pc = "physics"
       /\ Frame
       /\ Install(s)
       /\ pc' = "idle"
       /\ in_step' = {}
       /\ fired' = 0
       /\ UNCHANGED dispatched
       /\ Returned("step", 0, "World", s.err)

\* player.delete(e)
DeleteByPlayer(e, se) ==
    LET s == PlayerDelete(St, e, se)
    IN /\ Idle /\ Frame
       /\ Install(s)
       /\ Returned("delete", e, "Player", s.err)

\* asteroid_spammer.delete(e)
DeleteBySpammer(e, se) ==
    LET s == SpammerDelete(St, e, se)
    IN /\ Idle /\ Frame
       /\ Install(s)
       /\ Returned("delete", e, "Spammer", s.err)

\* player.step(dt)
StepPlayer(dt, u) ==
    LET s == PlayerStep(St, dt, u)
    IN /\ Idle /\ Frame
       /\ NextId(St) <= MaxEntities
       /\ Install(s)
       /\ Returned("step", 0, "Player", s.err)

\* asteroid_spammer.step(dt)
StepSpammer(dt, u) ==
    LET s == SpammerStep(St, dt, u)
    IN /\ Idle /\ Frame
       /\ NextId(St) <= MaxEntities
       /\ Install(s)
       /\ Returned("step", 0, "Spammer", s.err)

\* Player.on_key_press(key.SPACE) and Player.on_key_release(key.SPACE)
Key(down) ==
    /\ Idle
    /\ shoots' = down
    /\ Install(St)
    /\ Returned("key", 0, "Player", NoError)
    /\ UNCHANGED <<now, bps, aps, held, spawned, steady, tick>>

\* a second of wall-clock time passes
ClockAdvance ==
    /\ now + UnitsPerSecond <= MaxSeconds * UnitsPerSecond
    /\ now' = now + UnitsPerSecond
    /\ Install(St)
    /\ UNCHANGED <<pc, in_step, fired, dispatched, tick, call, faults, shoots,
                   bps, aps, held, spawned, steady>>

---------------------------------------------------------------------------
(* Spec: the game as main() set it up, its operations called in any order *)

\* the step lengths passed: 1/6 s and 1/3 s
ClientDts == {UnitsPerSecond \div DefaultBps, UnitsPerSecond \div DefaultAps}
\* the heading of the ship and the angle of a spawn in this specification
ClientDirection == <<1, 0, 1>>

Init == Start(MainSetup, DefaultBps, DefaultAps)

Next ==
    \/ \E np \in [space -> Positions] : StepEnter(np)
    \/ \E cb \in Dispatchable(St, in_step), se \in SpaceErrors : Collide(cb, se)
    \/ \E se \in SpaceErrors : StepLeave(se)
    \/ \E dt \in ClientDts : StepPlayer(dt, ClientDirection)
    \/ \E dt \in ClientDts : StepSpammer(dt, ClientDirection)
    \/ \E down \in BOOLEAN : Key(down)

Spec == Init /\ [][Next]_vars

---------------------------------------------------------------------------
(* MisuseSpec: a client that also calls the controllers' delete with       *)
(* objects of its own choice, until MaxFaults of its calls have raised     *)

\* the one step length this client passes: 1/3 s, a spawn at every step
MisuseDt == UnitsPerSecond \div DefaultAps

\* the client has caught fewer than MaxFaults errors and goes on calling
GoesOn == faults < MaxFaults

MisuseNext ==
    \/ \E e \in Objects, se \in SpaceErrors : GoesOn /\ DeleteByPlayer(e, se)
    \/ \E e \in Objects, se \in SpaceErrors : GoesOn /\ DeleteBySpammer(e, se)
    \/ GoesOn /\ StepPlayer(MisuseDt, ClientDirection)
    \/ GoesOn /\ StepSpammer(MisuseDt, ClientDirection)
    \/ GoesOn /\ Key(TRUE)

MisuseSpec == Init /\ [][MisuseNext]_vars

---------------------------------------------------------------------------
(* RegistrySpec: a client of World.add and World.remove, with objects it   *)
(* constructs itself and controllers of its choice, until MaxFaults of its *)
(* calls have raised                                                       *)

RegistryNext ==
    \/ GoesOn /\ Construct("Bullet")
    \/ \E e \in Objects, c \in Controllers : GoesOn /\ Add(e, c)
    \/ \E e \in Objects, c \in Controllers, se \in SpaceErrors :
           GoesOn /\ Remove(e, c, se)

RegistrySpec == Init /\ [][RegistryNext]_vars

---------------------------------------------------------------------------
(* DoneSpec: the game with a client that also assigns World.done, while    *)
(* the wall clock runs                                                     *)

DoneNext ==
    \/ \E v \in BOOLEAN : Len(labels) < MaxLabels /\ AssignDone(v)
    \/ \E np \in [space -> Positions] : StepEnter(np)
    \/ \E cb \in Dispatchable(St, in_step), se \in SpaceErrors : Collide(cb, se)
    \/ \E se \in SpaceErrors : StepLeave(se)
    \/ StepSpammer(MisuseDt, ClientDirection)
    \/ ClockAdvance

DoneSpec == Init /\ [][DoneNext]_vars

---------------------------------------------------------------------------
(* FireSpec and SpawnSpec: the timing scenarios.  A Player built with      *)
(* bps=4, or the spammer of main(), is stepped with step lengths of any    *)
(* whole number of units for a second of accumulated dt                    *)

ScenarioTime == UnitsPerSecond + ExtraTime
ScenarioDts == 1..UnitsPerSecond

\* player.step(dt) in the fire scenario
FireStep(dt, u) ==
    LET s == PlayerStep(St, dt, u)
    IN /\ Idle
       /\ shoots => held + dt <= ScenarioTime
       /\ Install(s)
       /\ Returned("step", 0, "Player", s.err)
       /\ held' = IF shoots THEN held + dt ELSE held
       /\ steady' = IF shoots THEN steady /\ dt = bps ELSE steady
       /\ spawned' = spawned + (NextId(s) - NextId(St))
       /\ UNCHANGED <<now, shoots, bps, aps, tick>>

FireInit == \E b \in BulletRates : Start(MainSetup, b, DefaultAps)

FireNext ==
    \/ \E dt \in ScenarioDts, u \in Directions : FireStep(dt, u)
    \/ \E down \in BOOLEAN : Key(down)

FireSpec == FireInit /\ [][FireNext]_vars

\* asteroid_spammer.step(dt) in the spawn scenario
SpawnStep(dt, u) ==
    LET s == SpammerStep(St, dt, u)
    IN /\ Idle
       /\ held + dt <= ScenarioTime
       /\ Install(s)
       /\ Returned("step", 0, "Spammer", s.err)
       /\ held' = held + dt
       /\ steady' = (steady /\ dt = aps)
       /\ spawned' = spawned + (NextId(s) - NextId(St))
       /\ UNCHANGED <<now, shoots, bps, aps, tick>>

SpawnNext == \E dt \in ScenarioDts, u \in Directions : SpawnStep(dt, u)

SpawnSpec == Init /\ [][SpawnNext]_vars

---------------------------------------------------------------------------
(* KindsSpec: the registrations and constructions of main() and the calls  *)
(* of its loop in any order and with repeats, from a World just            *)
(* constructed and with no collision handler installed, until a call      *)
(* raises (main() catches nothing)                                         *)

KindsInit == Start(Fresh, DefaultBps, DefaultAps)

\* no call has raised: main() catches nothing, an error ends the program
Running == faults = 0

KindsNext ==
    \/ \E k \in Kinds : Running /\ Register(k)
    \/ Running /\ NewPlayer
    \/ Running /\ NewSpammer
    \/ Running /\ "Player" \in controllers /\ Key(TRUE)
    \/ Running /\ "Player" \in controllers
               /\ StepPlayer(MisuseDt, ClientDirection)
    \/ Running /\ "Spammer" \in controllers
               /\ StepSpammer(MisuseDt, ClientDirection)
    \/ \E np \in [space -> Positions] : Running /\ StepEnter(np)
    \/ \E se \in SpaceErrors : Running /\ StepLeave(se)

KindsSpec == KindsInit /\ [][KindsNext]_vars

---------------------------------------------------------------------------
(* SetupSpec: the set-up calls of main() in any order and with repeats,   *)
(* from a World just constructed, by a client that catches what they      *)
(* raise, with the controllers' steps in between                           *)

\* the two decorations of main(): <<m1, m2, name of the function>>
HandlerCalls == {<<"Asteroid", "Bullet", "begin">>,
                 <<"Spaceship", "Asteroid", "post_solve">>}

SetupNext ==
    \/ \E k \in Kinds : GoesOn /\ Register(k)
    \/ \E h \in HandlerCalls : GoesOn /\ Handler(h[1], h[2], h[3])
    \/ GoesOn /\ NewPlayer
    \/ GoesOn /\ NewSpammer
    \/ GoesOn /\ "Player" \in controllers /\ Key(TRUE)
    \/ GoesOn /\ "Player" \in controllers
              /\ StepPlayer(MisuseDt, ClientDirection)
    \/ GoesOn /\ "Spammer" \in controllers
              /\ StepSpammer(MisuseDt, ClientDirection)

SetupSpec == KindsInit /\ [][SetupNext]_vars

---------------------------------------------------------------------------
(* CollideSpec: physics steps that leave every body inside the bounds, so  *)
(* that only the collision callbacks remove models, with one model more    *)
(* than in Spec: two asteroids can meet one bullet in the same step        *)

\* the models the two controllers may construct here
CollideEntities == MaxEntities + 1

\* the positions of Positions inside the bounds
Inside == {p \in Positions : ~OutOfBounds(p)}

\* player.step(dt) or asteroid_spammer.step(dt), by the controller c
StepController(c, dt, u) ==
    LET s == IF c = "Player" THEN PlayerStep(St, dt, u)
             ELSE SpammerStep(St, dt, u)
    IN /\ Idle /\ Frame
       /\ NextId(St) <= CollideEntities
       /\ Install(s)
       /\ Returned("step", 0, c, s.err)

CollideNext ==
    \/ \E c \in Controllers : StepController(c, MisuseDt, ClientDirection)
    \/ Key(TRUE)
    \/ \E np \in [space -> Inside] : StepEnter(np)
    \/ \E cb \in Dispatchable(St, in_step), se \in SpaceErrors : Collide(cb, se)
    \/ \E se \in SpaceErrors : StepLeave(se)

CollideSpec == Init /\ [][CollideNext]_vars

---------------------------------------------------------------------------
(* TickSpec: the loop of main().  pyglet's clock calls interval_cb(dt),    *)
(* which calls world.step, player.step and asteroid_spammer.step in this   *)
(* order; the fire key is pressed between two calls of interval_cb, the    *)
(* wall clock runs on its own, and an error that escapes ends the program  *)

\* the dts pyglet's clock passes
TickDts == ClientDts

\* interval_cb is not running: main() has set up, or the last call of the
\* last interval_cb has returned, or a key event was handled since
BetweenTicks ==
    /\ pc = "idle"
    /\ \/ call.op \in {"init", "key"}
       \/ call.op = "step" /\ call.c = "Spammer"

\* interval_cb is about to call world.step
WorldNext == pc = "idle" /\ call.op = "interval_cb"

\* a faulty interval_cb that may call player.step whenever no physics step
\* is running
PlayerAnyTime == pc = "idle" /\ call.op \in {"step", "interval_cb"}

\* world.step has returned, interval_cb is about to call player.step
PlayerNext == pc = "idle" /\ call.op = "step" /\ call.c = "World"

\* player.step has returned, interval_cb is about to call
\* asteroid_spammer.step
SpammerNext == pc = "idle" /\ call.op = "step" /\ call.c = "Player"

\* pyglet's clock calls interval_cb(dt)
Schedule(dt) ==
    /\ BetweenTicks
    /\ Idle
    /\ Install(St)
    /\ tick' = dt
    /\ held' = held + dt
    /\ call' = [op |-> "interval_cb", e |-> 0, c |-> "-", err |-> NoError]
    /\ UNCHANGED <<faults, now, shoots, bps, aps, spawned, steady>>

\* The wall clock is read by the done setter alone (line 168), and only on
\* the assignment that ends the game, so it is left standing once done holds.
TickNext ==
    \/ \E dt \in TickDts : Running /\ Schedule(dt)
    \/ \E np \in [space -> Positions] : Running /\ WorldNext /\ StepEnter(np)
    \/ \E cb \in Dispatchable(St, in_step), se \in SpaceErrors :
           Running /\ Collide(cb, se)
    \/ \E se \in SpaceErrors : Running /\ StepLeave(se)
    \/ Running /\ PlayerNext /\ StepPlayer(tick, ClientDirection)
    \/ Running /\ SpammerNext /\ StepSpammer(tick, ClientDirection)
    \/ Running /\ BetweenTicks /\ Key(TRUE)
    \/ ~done /\ ClockAdvance

TickSpec == Init /\ [][TickNext]_vars

---------------------------------------------------------------------------
(* ShipSpec: the game with a client that also calls player.delete with any *)
(* object, the ship among them, until MaxFaults of the calls have raised   *)

\* where space.step leaves a body here: on the corner of the bounds, which
\* the test of line 226 counts as inside, or past the left edge
Crossing == {p \in Positions : p[2] <= Top}

ShipNext ==
    \/ \E np \in [space -> Crossing] : GoesOn /\ StepEnter(np)
    \/ \E cb \in Dispatchable(St, in_step), se \in SpaceErrors :
           GoesOn /\ Collide(cb, se)
    \/ \E se \in SpaceErrors : GoesOn /\ StepLeave(se)
    \/ \E e \in Objects, se \in SpaceErrors : GoesOn /\ DeleteByPlayer(e, se)
    \/ GoesOn /\ StepPlayer(MisuseDt, ClientDirection)
    \/ GoesOn /\ StepSpammer(MisuseDt, ClientDirection)
    \/ GoesOn /\ Key(TRUE)

ShipSpec == Init /\ [][ShipNext]_vars

---------------------------------------------------------------------------
(* The claims *)

\* the pair p is kept by a culling pass: the ship, or a model in the bounds
Kept(p) == kind[p[1]] = "Spaceship" \/ ~OutOfBounds(pos[p[1]])
\* the model e is in one of the two indices of World
Registered(e) ==
    e \in DOMAIN shapes \/ \E i \in 1..Len(models) : models[i][1] = e

\* C1: when World.step culls and returns, every model that is not the ship
\* and lies outside the bounds is gone from the pair list and from the shape
\* map, and every other pair is left in place, in order.
C1_CullingComplete ==
    [][pc = "physics" /\ pc' = "idle" /\ call'.err = NoError =>
           /\ models' = SelectSeq(models, Kept)
           /\ DOMAIN shapes' = {e \in DOMAIN shapes : Kept(shapes[e])}]_vars

\* C2: the two indices agree: no model is twice in the pair list, the shape
\* map has exactly the models of the list as keys, and maps each to its pair
\* of the list.
C2_IndicesAgree ==
    /\ \A i, j \in 1..Len(models) : models[i][1] = models[j][1] => i = j
    /\ DOMAIN shapes = {models[i][1] : i \in 1..Len(models)}
    /\ \A i \in 1..Len(models) : shapes[models[i][1]] = models[i]

\* C3: done never goes back to false, and a label is created exactly when
\* done changes from false to true, showing the seconds elapsed then.
C3_DoneOneShot ==
    [][/\ done => done'
       /\ (labels' # labels) =>
              (~done /\ done' /\ labels' = Append(labels, Seconds))
       /\ (~done /\ done') => (labels' = Append(labels, Seconds))]_vars

\* C4: once done is true no physics step is entered, and a call of
\* World.step changes neither the positions, the indices, the space, the
\* controllers' and the View's registries, the done flag nor the labels.
C4_StepNoOpWhenDone ==
    [][(done /\ pc = "idle") =>
           /\ pc' = "idle"
           /\ (call'.op = "step" /\ call'.c = "World") =>
                  UNCHANGED <<kind, pos, models, shapes, space, done, labels,
                              view, asteroids, tsb, last_asteroid, in_step,
                              fired>>]_vars

\* C4 witness: World.step returned with done true, the ship out of bounds
\* and a bullet, spawned after done, still where it was spawned.
C4_Witness ==
    /\ done /\ pc = "idle"
    /\ call.op = "step" /\ call.c = "World"
    /\ OutOfBounds(pos[spaceship])
    /\ \E e \in DOMAIN shapes : kind[e] = "Bullet" /\ pos[e] \notin Positions

\* C5: World.remove of a model that is in neither index raises pymunk's
\* not-in-space error and leaves the pair list (its order included), the
\* shape map and the space as they were.
C5_SecondRemoveFails ==
    [][(call'.op = "remove" /\ ~Registered(call'.e)) =>
           /\ call'.err \in SpaceErrors
           /\ models' = models
           /\ shapes' = shapes
           /\ space' = space]_vars

\* C5 witness: the ship, registered by main(), was removed and the second
\* removal has just failed, while another model is still registered.
C5_Witness ==
    /\ call.op = "remove" /\ call.e = spaceship
    /\ call.err \in SpaceErrors
    /\ ~Registered(spaceship)
    /\ \E e \in DOMAIN shapes : InList(models, shapes[e])

\* C6: after a World.add(e, c) that returned, get_by_shape(e.shape) is
\* (e, c); after a World.remove(e, c) that returned, it raises KeyError; the
\* lookup of every other shape is the same before and after either call,
\* returned or raised.
C6_LookupAfterAddRemove ==
    [][\A e \in Objects :
          /\ (call'.op = "add" /\ call'.e = e /\ call'.err = NoError) =>
                 get_by_shape(e)' = [err |-> NoError, val |-> <<e, call'.c>>]
          /\ (call'.op = "remove" /\ call'.e = e /\ call'.err = NoError) =>
                 get_by_shape(e)' = [err |-> "KeyError", val |-> <<>>]
          /\ (call'.op \in {"add", "remove"} /\ call'.e # e) =>
                 get_by_shape(e)' = get_by_shape(e)]_vars

\* C6 witness: an add has just returned, its pair is what the lookup gives,
\* and another shape is registered beside it.
C6_Witness ==
    /\ call.op = "add" /\ call.err = NoError
    /\ get_by_shape(call.e).val = <<call.e, call.c>>
    /\ Cardinality(DOMAIN shapes) >= 2

\* the number of pairs of the list whose model is of kind k
CountKind(k) == Cardinality({i \in 1..Len(models) : kind[models[i][1]] = k})
\* the square of the distance between the points p and q
Dist2(p, q) == (p[1] - q[1]) * (p[1] - q[1]) + (p[2] - q[2]) * (p[2] - q[2])
\* the controller c is the one model e is registered or tracked under
Owns(c, e) ==
    IF c = "Player"
    THEN kind[e] = "Bullet" /\ InList(models, <<e, "Player">>)
    ELSE InList(asteroids, e)

\* C7 as stated: with bps = 4 and the fire key held, Player.step calls
\* whose dt sum to one second spawn exactly 4 bullets.
C7_ExactlyFour ==
    (bps * 4 = UnitsPerSecond /\ held = UnitsPerSecond) => spawned = 4

\* C7 amended: with bps = 4 and the fire key held from a zero accumulator,
\* every spawn takes at least 1/4 s of accumulated dt, so calls summing to
\* one second spawn at most 4 bullets, and exactly 4 when every dt is 1/4 s;
\* each spawn adds one Bullet pair and resets the accumulator to zero.
C7_FireRate ==
    /\ [](bps * 4 = UnitsPerSecond =>
            /\ spawned * bps <= held
            /\ CountKind("Bullet") = spawned
            /\ tsb < bps
            /\ (held = UnitsPerSecond) => spawned <= 4
            /\ (held = UnitsPerSecond /\ steady) => spawned = 4)
    /\ [][(bps * 4 = UnitsPerSecond /\ spawned' # spawned) =>
              (spawned' = spawned + 1 /\ tsb' = 0)]_vars

\* C7 witness: one second of steps of 1/4 s each with the key held has
\* spawned four bullets at bps = 4.
C7_Witness ==
    /\ bps * 4 = UnitsPerSecond
    /\ held = UnitsPerSecond /\ steady
    /\ spawned = 4 /\ CountKind("Bullet") = 4
    /\ call.op = "step" /\ call.c = "Player"

\* C8 as stated: with aps = 3, AsteroidSpammer.step calls whose dt sum to
\* one second leave exactly 3 asteroids in the registry.
C8_ExactlyThree ==
    (aps * 3 = UnitsPerSecond /\ held = UnitsPerSecond) =>
        CountKind("Asteroid") = 3

\* C8 amended: with aps = 3 and a zero accumulator, every spawn takes at
\* least 1/3 s of accumulated dt, so calls summing to one second leave at
\* most 3 asteroids, and exactly 3 when every dt is 1/3 s; the registry and
\* the spammer's list hold the same asteroids, each created at the spawn
\* radius from the anchor, which is no more than the outer radius.
C8_SpawnRate ==
    /\ [](aps * 3 = UnitsPerSecond =>
            /\ spawned * aps <= held
            /\ CountKind("Asteroid") = spawned
            /\ Len(asteroids) = spawned
            /\ \A i \in 1..Len(asteroids) :
                   /\ InList(models, <<asteroids[i], "Spammer">>)
                   /\ Dist2(pos[asteroids[i]], Mid) = SpawnRadius * SpawnRadius
            /\ SpawnRadius <= OuterRadius
            /\ (held = UnitsPerSecond) => spawned <= 3
            /\ (held = UnitsPerSecond /\ steady) => spawned = 3)
    /\ [][(spawned' # spawned) =>
              (spawned' = spawned + 1 /\ last_asteroid' = 0)]_vars

\* C8 witness: one second of steps of 1/3 s each has left three asteroids
\* in the registry and in the spammer's list.
C8_Witness ==
    /\ aps * 3 = UnitsPerSecond
    /\ held = UnitsPerSecond /\ steady
    /\ CountKind("Asteroid") = 3 /\ Len(asteroids) = 3
    /\ call.op = "step" /\ call.c = "Spammer"

\* C9: no two kinds have the same tag, the tags are 1..K for K registered
\* kinds, the class attribute of a kind is its tag, a kind registered for the
\* first time gets K + 1, and no call changes the tag of a registered kind.
C9_TagsStableBijection ==
    /\ [](/\ \A k1, k2 \in DOMAIN collision_handlers :
                collision_handlers[k1] = collision_handlers[k2] => k1 = k2
          /\ {collision_handlers[k] : k \in DOMAIN collision_handlers}
                 = 1..Cardinality(DOMAIN collision_handlers)
          /\ collision_type = collision_handlers)
    /\ [][/\ \A k \in DOMAIN collision_handlers :
                /\ k \in DOMAIN collision_handlers'
                /\ collision_handlers'[k] = collision_handlers[k]
          /\ \A k \in DOMAIN collision_handlers' \ DOMAIN collision_handlers :
                /\ call'.op = "register_model" /\ call'.c = k
                /\ collision_handlers'[k]
                       = Cardinality(DOMAIN collision_handlers) + 1]_vars

\* C9 witness: a kind that was not the last to be registered has just been
\* registered again, with every kind registered and models in the World.
C9_Witness ==
    /\ call.op = "register_model"
    /\ DOMAIN collision_handlers = Kinds
    /\ collision_handlers[call.c] < Cardinality(Kinds)
    /\ Len(models) >= 2

\* C10: a delete(model) of a controller that does not own the model raises
\* nothing and changes neither the World's indices and space, the spammer's
\* list nor the View's registrations.
C10_DeleteNotOwnedNoOp ==
    [][(call'.op = "delete" /\ ~Owns(call'.c, call'.e)) =>
           /\ call'.err = NoError
           /\ UNCHANGED <<models, shapes, space, asteroids, view>>]_vars

\* a callback is dispatched in this step; dispatched' tells which
CallbackRan ==
    /\ pc = "physics"
    /\ dispatched' # NoDispatch
    /\ (fired' = fired + 1 \/ dispatched'[4] = "raised")
\* the list l without the pairs whose model is in S
PairsWithout(l, S) == LET Other(p) == p[1] \notin S IN SelectSeq(l, Other)
\* the list l without the models in S
ModelsWithout(l, S) == LET Other(e) == e \notin S IN SelectSeq(l, Other)

\* C11: a begin callback dispatched for shapes a, b of which at least one is
\* no longer in the shape map returns without an error, leaves the entries
\* of every other model as they were, and takes each of a, b that was still
\* registered out of the World, its controller's list and the View.
C11_BeginToleratesRemoved ==
    [][\A a, b \in Objects :
          (/\ CallbackRan
           /\ dispatched'[1] = "begin" /\ dispatched'[2] = a
           /\ dispatched'[3] = b
           /\ (a \notin DOMAIN shapes \/ b \notin DOMAIN shapes)) =>
              /\ dispatched'[4] = "False"
              /\ pc' = "physics"
              /\ models' = PairsWithout(models, {a, b})
              /\ DOMAIN shapes' = DOMAIN shapes \ {a, b}
              /\ \A e \in DOMAIN shapes' : shapes'[e] = shapes[e]
              /\ space' = space \ {a, b}
              /\ view' = view \ {a, b}
              /\ asteroids' = ModelsWithout(asteroids, {a, b})]_vars

\* C11 witness: in one physics step over the ship and three other models,
\* two callbacks have removed the three: begin ran a second time, for a
\* pair with one shape removed by its first run and one still registered,
\* and returned.
C11_Witness ==
    /\ pc = "physics" /\ fired = 2 /\ ~done
    /\ Cardinality(in_step) = 4
    /\ Cardinality(in_step \ DOMAIN shapes) = 3
    /\ Len(dispatched) = 4 /\ dispatched[1] = "begin"
    /\ dispatched[4] = "False"
    /\ spaceship \in DOMAIN shapes

\* C12: a World.add of a model whose shape is in the shape map raises the
\* duplicate error and leaves the pair list, the shape map and the space
\* as they were.
C12_DuplicateAddRejected ==
    [][(call'.op = "add" /\ call'.e \in DOMAIN shapes) =>
           /\ call'.err = "AssertionError"
           /\ UNCHANGED <<models, shapes, space>>]_vars

\* C13: when a post_solve callback for the ship and an asteroid is
\* dispatched in a World.step, done is true from then on, so when the step
\* returns and in every later state, and the label created at the transition
\* shows the whole seconds of the ticks stepped so far, this one included.
C13_CollisionEndsGame ==
    [][/\ done => done'
       /\ (CallbackRan /\ dispatched'[1] = "post_solve") =>
              /\ done'
              /\ ~done => labels' = Append(labels, held \div UnitsPerSecond)]_vars

\* C14: in the loop of main(), world.step returns only inside an
\* interval_cb that called it, player.step runs only right after a
\* world.step that returned, asteroid_spammer.step only right after
\* player.step; from the start of the physics step to the end of culling no
\* controller steps or spawns, and after culling no callback runs until the
\* next physics step.
C14_TickOrder ==
    [][/\ (call' # call /\ call'.op = "step" /\ call'.c = "World") =>
              call.op = "interval_cb"
       /\ (call' # call /\ call'.op = "step" /\ call'.c = "Player") =>
              (pc = "idle" /\ call.op = "step" /\ call.c = "World"
                  /\ call.err = NoError)
       /\ (call' # call /\ call'.op = "step" /\ call'.c = "Spammer") =>
              (pc = "idle" /\ call.op = "step" /\ call.c = "Player"
                  /\ call.err = NoError)
       /\ (pc = "physics") =>
              (tsb' = tsb /\ last_asteroid' = last_asteroid /\ kind' = kind)
       /\ (pc = "idle") =>
              (dispatched' = dispatched
                  \/ (pc' = "physics" /\ dispatched' = NoDispatch))]_vars

\* C14 witness: the second tick, in whose world.step post_solve ran for the
\* ship and the asteroid of the first tick, has gone through player.step
\* and asteroid_spammer.step, which spawned a second asteroid.
C14_Witness ==
    /\ pc = "idle"
    /\ call.op = "step" /\ call.c = "Spammer" /\ call.err = NoError
    /\ held = 2 * MisuseDt
    /\ Len(dispatched) = 4 /\ dispatched[1] = "post_solve"
    /\ Len(asteroids) = 2

\* C15: once done is true and World.step has returned, every pair of the
\* list and every entry of the shape map stays where it is and no physics
\* step is entered, while player.step with the fire key held and
\* asteroid_spammer.step still append a Bullet and an Asteroid pair when
\* their accumulators reach the threshold.
C15_DoneStopsOnlyWorld ==
    [][(done /\ pc = "idle") =>
           /\ pc' = "idle"
           /\ Len(models') >= Len(models)
           /\ \A i \in 1..Len(models) : models'[i] = models[i]
           /\ \A e \in DOMAIN shapes :
                  e \in DOMAIN shapes' /\ shapes'[e] = shapes[e]
           /\ (PlayerNext /\ call'.c = "Player" /\ shoots
                  /\ tsb + tick >= bps) =>
                  /\ models' = Append(models, <<NextId(St), "Player">>)
                  /\ kind'[NextId(St)] = "Bullet"
           /\ (SpammerNext /\ call'.c = "Spammer"
                  /\ last_asteroid + tick >= aps) =>
                  /\ models' = Append(models, <<NextId(St), "Spammer">>)
                  /\ kind'[NextId(St)] = "Asteroid"]_vars

\* C15 witness: in the first tick world.step found the ship out of bounds
\* and set done; player.step and asteroid_spammer.step of the same tick
\* then added a bullet and an asteroid.
C15_Witness ==
    /\ done /\ pc = "idle"
    /\ held = tick
    /\ call.op = "step" /\ call.c = "Spammer"
    /\ Len(models) = 3
    /\ kind[models[2][1]] = "Bullet" /\ kind[models[3][1]] = "Asteroid"

\* C16: a Player.step spawns at most one bullet, only with the fire key
\* held and only when the accumulator plus dt reaches 1/bps, and then sets
\* the accumulator to zero; below the threshold it adds dt to the
\* accumulator; with the key released it leaves the accumulator alone.  So
\* every spawn takes at least 1/bps of steps with the key held.
C16_FireRateFloor ==
    /\ [](spawned * bps <= held /\ tsb < bps)
    /\ [][(call'.op = "step" /\ call'.c = "Player") =>
              /\ spawned' \in {spawned, spawned + 1}
              /\ CountKind("Bullet")' = CountKind("Bullet") + spawned' - spawned
              /\ (spawned' = spawned + 1) <=>
                     (shoots /\ tsb + (held' - held) >= bps)
              /\ (spawned' = spawned + 1) => tsb' = 0
              /\ (shoots /\ spawned' = spawned) => tsb' = tsb + (held' - held)
              /\ ~shoots => (tsb' = tsb /\ held' = held)]_vars

\* C16 witness: two bullets were spawned over more than two thresholds of
\* steps with the key held, and the accumulator is zero again: the excess
\* was dropped.
C16_Witness ==
    /\ call.op = "step" /\ call.c = "Player"
    /\ spawned = 2 /\ tsb = 0
    /\ held > 2 * bps

\* C17: a begin callback dispatched for an asteroid a and a bullet b that
\* are both registered takes both out of the pair list, the shape map, the
\* space and the View, and a out of the spammer's list; and every begin
\* callback, whatever its lookups found, returns False.
C17_BeginDestroysBoth ==
    [][\A a, b \in Objects :
          (/\ CallbackRan
           /\ dispatched'[1] = "begin" /\ dispatched'[2] = a
           /\ dispatched'[3] = b) =>
              /\ dispatched'[4] = "False"
              /\ (a \in DOMAIN shapes /\ b \in DOMAIN shapes) =>
                     /\ InList(models, <<a, "Spammer">>)
                     /\ InList(models, <<b, "Player">>)
                     /\ models' = PairsWithout(models, {a, b})
                     /\ DOMAIN shapes' = DOMAIN shapes \ {a, b}
                     /\ space' = space \ {a, b}
                     /\ {a, b} \subseteq view /\ view' = view \ {a, b}
                     /\ InList(asteroids, a)
                     /\ asteroids' = ModelsWithout(asteroids, {a})]_vars

\* C17 witness: the first callback of a physics step was begin for an
\* asteroid and a bullet of the space; it returned False and both are gone
\* from the World, the View and the spammer's list.
C17_Witness ==
    /\ pc = "physics" /\ fired = 1
    /\ Len(dispatched) = 4 /\ dispatched[1] = "begin"
    /\ dispatched[4] = "False"
    /\ {dispatched[2], dispatched[3]} \subseteq in_step
    /\ {dispatched[2], dispatched[3]} \cap (DOMAIN shapes \cup view) = {}
    /\ ~InList(asteroids, dispatched[2])
    /\ Len(models) >= 2

\* C18: every model object constructed is of a registered kind, so no pair
\* of the list is of an unregistered kind; constructing the Player, a
\* bullet or an asteroid while its kind is unregistered raises and leaves
\* the objects, the World, the spammer's list and the View as they were;
\* a handler decoration naming an unregistered kind raises KeyError and
\* installs nothing.
C18_UnregisteredKindRejected ==
    /\ [](/\ \A e \in DOMAIN kind : kind[e] \in DOMAIN collision_type
          /\ \A i \in 1..Len(models) : models[i][1] \in DOMAIN kind)
    /\ [][/\ (\/ call'.op = "Player" /\ "Spaceship" \notin DOMAIN collision_type
              \/ /\ call'.op = "step" /\ call'.c = "Player"
                 /\ shoots /\ tsb + MisuseDt >= bps
                 /\ "Bullet" \notin DOMAIN collision_type
              \/ /\ call'.op = "step" /\ call'.c = "Spammer"
                 /\ last_asteroid + MisuseDt >= aps
                 /\ "Asteroid" \notin DOMAIN collision_type) =>
                 /\ call'.err = "AttributeError"
                 /\ UNCHANGED <<kind, models, shapes, space, asteroids, view,
                                controllers>>
          /\ \A h \in HandlerCalls :
                (/\ call'.op = "collision_handler" /\ call'.c = h[3]
                 /\ {h[1], h[2]} \ DOMAIN collision_handlers # {}) =>
                    (call'.err = "KeyError" /\ UNCHANGED space_handlers)]_vars

\* C18 witness: with the Spaceship registered and the Player built, a
\* Player.step that had to construct a Bullet, a kind not registered, has
\* just raised, after a handler decoration had raised before it.
C18_Witness ==
    /\ call.op = "step" /\ call.c = "Player"
    /\ call.err = "AttributeError"
    /\ "Bullet" \notin DOMAIN collision_type
    /\ faults = 2
    /\ space_handlers = {}
    /\ Len(models) = 1

\* the models of the pair list
Listed == {models[i][1] : i \in 1..Len(models)}

\* C19: after every World.add and World.remove, returned or raised, each
\* model is in the space, the pair list and the shape map, or in none of
\* the three.
C19_AddRemoveAtomic ==
    \A e \in Objects :
        /\ (e \in space) <=> (e \in Listed)
        /\ (e \in space) <=> (e \in DOMAIN shapes)

\* C20: between two calls of the loop, every Asteroid of the pair list is
\* paired with the spammer and every Bullet and the Spaceship with the
\* Player; the spammer's list holds each Asteroid of the pair list once and
\* nothing else; the models with a sprite in the View are the models of the
\* pair list.
C20_OwnershipConsistent ==
    (pc = "idle") =>
        /\ \A i \in 1..Len(models) :
               models[i][2] = IF kind[models[i][1]] = "Asteroid"
                              THEN "Spammer" ELSE "Player"
        /\ {asteroids[i] : i \in 1..Len(asteroids)}
               = {e \in Listed : kind[e] = "Asteroid"}
        /\ \A i, j \in 1..Len(asteroids) :
               asteroids[i] = asteroids[j] => i = j
        /\ view = Listed

\* C20 witness: a World.step has returned after one of two asteroids was
\* deleted; the other is still listed, tracked and drawn.
C20_Witness ==
    /\ pc = "idle"
    /\ call.op = "step" /\ call.c = "World" /\ call.err = NoError
    /\ Cardinality({e \in DOMAIN kind : kind[e] = "Asteroid"}) = 2
    /\ Len(asteroids) = 1
    /\ view = {spaceship, asteroids[1]}

\* the ship is in the pair list and in the shape index, paired with the
\* Player in both
ShipPresent ==
    /\ InList(models, <<spaceship, "Player">>)
    /\ spaceship \in DOMAIN shapes
    /\ shapes[spaceship] = <<spaceship, "Player">>

\* the step is a culling pass: space.step returns and World.step culls
CullingPass == pc = "physics" /\ pc' = "idle" /\ UNCHANGED dispatched

\* C21: once the Player is constructed, Player._spaceship never changes and
\* the Spaceship stays in the pair list and in the shape index of World,
\* paired with the Player, after every step: a collision callback, a
\* culling pass and a call of Player.delete with any object; a culling pass
\* that finds the ship outside the bounds sets done.
C21_ShipNeverRemoved ==
    [][/\ spaceship # 0
       /\ ShipPresent
       /\ spaceship' = spaceship
       /\ ShipPresent'
       /\ CullingPass /\ OutOfBounds(pos[spaceship]) => done']_vars

\* C21 witness: a culling pass found the ship outside the bounds and set
\* done with no callback dispatched in that step; then player.delete(ship)
\* returned, and the ship is still in both indices.
C21_Witness ==
    /\ pc = "idle"
    /\ call.op = "delete" /\ call.c = "Player" /\ call.e = spaceship
    /\ call.err = NoError
    /\ OutOfBounds(pos[spaceship])
    /\ done /\ dispatched = NoDispatch
    /\ ShipPresent

=============================================================================
